---------------------------- MODULE Spec2Model ----------------------------
(***************************************************************************)
(* Model of src/js/app.js (Sweet Kitty Bakery): the Producto entity, the   *)
(* Carrito store with its localStorage codec, and the cart widget.         *)
(*                                                                         *)
(* Conventions                                                             *)
(*  - A JavaScript string whose characters matter (a price label, a        *)
(*    formatted price) is a sequence of one-character strings.  Ids, names *)
(*    and categories are opaque TLA+ strings.                              *)
(*  - A JavaScript number that is an amount of money is a fixed-point      *)
(*    integer counting units of 10^-FracDigits; the price labels of the    *)
(*    model carry at most FracDigits fractional digits, so parseFloat is   *)
(*    exact on them.  Quantities are plain integers.                       *)
(*  - The Map #items is a sequence of entries without repeated id, in      *)
(*    insertion order.                                                     *)
(*  - The text stored under 'skb_carrito' is a record: kind "null" (no     *)
(*    such key), "empty" (the empty string), "garbage" (text that is not   *)
(*    JSON) or "json" (the text of the JSON value in field doc).           *)
(***************************************************************************)
EXTENDS Integers, Sequences, FiniteSets, TLC

(***************************************************************************)
(* Bounds of the model.                                                    *)
(***************************************************************************)
MaxQty == 3         \* largest quantity an add or an updateQty may produce
MaxBlobLen == 2     \* longest JSON array found in storage at page load
MaxFailures == 1    \* storage writes that may fail in one run
FracDigits == 2     \* fractional digits an amount may carry

(***************************************************************************)
(* Characters and numbers.                                                 *)
(***************************************************************************)
DigitChars == <<"0", "1", "2", "3", "4", "5", "6", "7", "8", "9">>

Digits == {DigitChars[i] : i \in 1..10}

DigitVal(c) == (CHOOSE i \in 1..10 : DigitChars[i] = c) - 1

RECURSIVE Pow10(_)
Pow10(n) == IF n = 0 THEN 1 ELSE 10 * Pow10(n - 1)

Scale == Pow10(FracDigits)

\* The amount units.hundredths as a fixed-point number.
Amount(units, hundredths) == units * Scale + hundredths * (Scale \div 100)

RECURSIVE DigitsToInt(_)
DigitsToInt(s) ==
  IF s = <<>> THEN 0
  ELSE 10 * DigitsToInt(SubSeq(s, 1, Len(s) - 1)) + DigitVal(s[Len(s)])

RECURSIVE IntToDigits(_)
IntToDigits(n) ==
  IF n < 10 THEN <<DigitChars[n + 1]>>
  ELSE Append(IntToDigits(n \div 10), DigitChars[(n % 10) + 1])

\* The longest prefix of s made of digits.
RECURSIVE DigitPrefix(_)
DigitPrefix(s) ==
  IF s = <<>> \/ s[1] \notin Digits THEN <<>>
  ELSE <<s[1]>> \o DigitPrefix(Tail(s))

\* String.prototype.replace(',', '.'): the first comma only.
RECURSIVE ReplaceFirstComma(_)
ReplaceFirstComma(s) ==
  IF s = <<>> THEN <<>>
  ELSE IF s[1] = "," THEN <<".">> \o Tail(s)
  ELSE <<s[1]>> \o ReplaceFirstComma(Tail(s))

\* The cleaning with a plausible slip: the point is not kept.
CleanedNoPoint(s) ==
  ReplaceFirstComma(SelectSeq(s, LAMBDA c : c \in Digits \cup {","}))

\* replace(/[^\d.,]/g, '').replace(',', '.')
Cleaned(s) ==
  ReplaceFirstComma(SelectSeq(s, LAMBDA c : c \in Digits \cup {".", ","}))

\* The decimal literal parseFloat reads at the start of s: its integer digits
\* and, after a point, its fractional digits.
IntPart(s) == DigitPrefix(s)

FracPart(s) ==
  LET rest == SubSeq(s, Len(IntPart(s)) + 1, Len(s))
  IN  IF rest # <<>> /\ rest[1] = "." THEN DigitPrefix(Tail(rest)) ELSE <<>>

\* parseFloat: nan when no digit starts the text, else the literal's value.
parseFloat(s) ==
  LET ip == IntPart(s)
      fp == FracPart(s)
  IN  IF ip = <<>> /\ fp = <<>> THEN [nan |-> TRUE, v |-> 0]
      ELSE [nan |-> FALSE,
            v   |-> DigitsToInt(ip) * Scale
                    + DigitsToInt(fp) * Pow10(FracDigits - Len(fp))]

parsePrice(priceStr) ==
  IF priceStr = <<>> THEN 0
  ELSE LET f == parseFloat(Cleaned(priceStr))
       IN  IF f.nan THEN 0 ELSE f.v

\* parsePrice called with a value v that is null or a string: null is
\* falsy and returns 0 before anything is called on it.
parsePriceOf(v) ==
  IF v.kind = "null" THEN [thrown |-> FALSE, n |-> 0]
  ELSE [thrown |-> FALSE, n |-> parsePrice(v.s)]

\* Number.prototype.toFixed(2)
toFixed2(num) ==
  LET abs   == IF num < 0 THEN 0 - num ELSE num
      cents == (abs * 100 + (Scale \div 2)) \div Scale
      frac  == cents % 100
  IN  (IF num < 0 THEN <<"-">> ELSE <<>>)
      \o IntToDigits(cents \div 100) \o <<".">>
      \o <<DigitChars[(frac \div 10) + 1], DigitChars[(frac % 10) + 1]>>

formatPrice(num) == <<"S", "/", " ">> \o toFixed2(num)

(***************************************************************************)
(* Producto.                                                               *)
(***************************************************************************)
\* A destructured parameter that was not passed.
undefined == "<undefined>"

\* constructor({ id, nombre, precio, categoria = 'general' })
Producto(id, nombre, precio, categoria) ==
  [id        |-> id,
   nombre    |-> nombre,
   precio    |-> precio,
   categoria |-> IF categoria = undefined THEN "general" ELSE categoria,
   cantidad  |-> 1]

getId(p) == p.id

(***************************************************************************)
(* JSON values, and the text kept in localStorage.                         *)
(***************************************************************************)
JNull == [t |-> "null"]

JStr(s) == [t |-> "str", s |-> s]

JNum(n) == [t |-> "num", n |-> n]

JObj(members) == [t |-> "obj", m |-> members]

JArr(elems) == [t |-> "arr", a |-> elems]

NoItem == [kind |-> "null"]

EmptyText == [kind |-> "empty"]

GarbageText == [kind |-> "garbage"]

\* JSON.stringify(value): the text of a JSON value.
JSONstringify(doc) == [kind |-> "json", doc |-> doc]

\* JSON.parse(text): the value, or a SyntaxError.
JSONparse(raw) ==
  IF raw.kind = "json" THEN [exc |-> FALSE, doc |-> raw.doc]
  ELSE [exc |-> TRUE, doc |-> JNull]

\* The object literal of saveToStorage's map callback, as JSON.
EntryRecord(p) ==
  JObj([id        |-> JStr(getId(p)),
        nombre    |-> JStr(p.nombre),
        precio    |-> JNum(p.precio),
        categoria |-> JStr(p.categoria),
        cantidad  |-> JNum(p.cantidad)])

(***************************************************************************)
(* Map operations on the entry sequence.                                   *)
(***************************************************************************)
MapHas(its, id) == \E i \in 1..Len(its) : its[i].id = id

MapIndex(its, id) == CHOOSE i \in 1..Len(its) : its[i].id = id

MapGet(its, id) == its[MapIndex(its, id)]

\* The quantity the store holds for id: 0 when it holds no entry for it.
QtyOf(its, id) == IF MapHas(its, id) THEN MapGet(its, id).cantidad ELSE 0

\* Map.prototype.set: a known key keeps its place, a new key goes last.
MapSet(its, id, p) ==
  IF MapHas(its, id) THEN [its EXCEPT ![MapIndex(its, id)] = p]
  ELSE Append(its, p)

MapDelete(its, id) == SelectSeq(its, LAMBDA e : e.id # id)

(***************************************************************************)
(* Carrito.  Each method maps the store (the entries its and the stored    *)
(* text raw) to the store it leaves, with thrown telling whether an error  *)
(* reached the caller.  writeOk tells whether localStorage.setItem         *)
(* succeeds.                                                               *)
(***************************************************************************)
getItemsArray(its) == its

\* for (const p of values) total += p.precio * p.cantidad
RECURSIVE TotalLoop(_, _, _)
TotalLoop(its, i, total) ==
  IF i > Len(its) THEN total
  ELSE TotalLoop(its, i + 1, total + its[i].precio * its[i].cantidad)

\* getTotal with a plausible slip: the quantity is left out of the product.
RECURSIVE UnitPriceLoop(_, _, _)
UnitPriceLoop(its, i, total) ==
  IF i > Len(its) THEN total
  ELSE UnitPriceLoop(its, i + 1, total + its[i].precio)

getTotalUnitPrices(its) == UnitPriceLoop(its, 1, 0)

getTotal(its) == TotalLoop(its, 1, 0)

RECURSIVE CountLoop(_, _, _)
CountLoop(its, i, c) ==
  IF i > Len(its) THEN c ELSE CountLoop(its, i + 1, c + its[i].cantidad)

getCount(its) == CountLoop(its, 1, 0)

\* saveToStorage with a plausible slip: no try/catch around the write.
saveToStorageNoCatch(its, raw, writeOk) ==
  LET arr == [i \in 1..Len(getItemsArray(its)) |-> EntryRecord(its[i])]
  IN  IF writeOk
        THEN [items |-> its, raw |-> JSONstringify(JArr(arr)), thrown |-> FALSE]
        ELSE [items |-> its, raw |-> raw, thrown |-> TRUE]

saveToStorage(its, raw, writeOk) ==
  LET arr == [i \in 1..Len(getItemsArray(its)) |-> EntryRecord(its[i])]
  IN  IF writeOk
        THEN [items |-> its, raw |-> JSONstringify(JArr(arr)), thrown |-> FALSE]
        \* catch (e) { console.error('guardar carrito', e); }
        ELSE [items |-> its, raw |-> raw, thrown |-> FALSE]

\* The for-of loop of loadFromStorage from element i on; exc tells whether it
\* threw (reading o.id of null), leaving the entries set so far.
\* The loop with a plausible slip: the stored quantity is not restored, each
\* rebuilt product keeps the constructor's quantity.
RECURSIVE LoadLoopFreshQty(_, _, _)
LoadLoopFreshQty(arr, i, its) ==
  IF i > Len(arr) THEN [items |-> its, exc |-> FALSE]
  ELSE LET o == arr[i]
       IN  IF o.t # "obj" THEN [items |-> its, exc |-> TRUE]
           ELSE LET p == Producto(o.m.id.s, o.m.nombre.s, o.m.precio.n,
                                  o.m.categoria.s)
                IN  LoadLoopFreshQty(arr, i + 1, MapSet(its, getId(p), p))

RECURSIVE LoadLoop(_, _, _)
LoadLoop(arr, i, its) ==
  IF i > Len(arr) THEN [items |-> its, exc |-> FALSE]
  ELSE LET o == arr[i]
       IN  IF o.t # "obj" THEN [items |-> its, exc |-> TRUE]
           ELSE LET p == [Producto(o.m.id.s, o.m.nombre.s, o.m.precio.n,
                                   o.m.categoria.s)
                            EXCEPT !.cantidad = o.m.cantidad.n]
                IN  LoadLoop(arr, i + 1, MapSet(its, getId(p), p))

\* The try block of loadFromStorage.
LoadTry(its, raw) ==
  IF raw.kind \in {"null", "empty"} THEN [items |-> its, exc |-> FALSE]
  ELSE LET parsed == JSONparse(raw)
       IN  IF parsed.exc THEN [items |-> its, exc |-> TRUE]
           ELSE IF parsed.doc.t # "arr" THEN [items |-> its, exc |-> TRUE]
           ELSE LoadLoop(parsed.doc.a, 1, its)

loadFromStorage(its, raw) ==
  \* catch (e) { console.error('cargar carrito', e); }
  [items |-> LoadTry(its, raw).items, raw |-> raw, thrown |-> FALSE]

\* constructor(): this.#items = new Map(); this.loadFromStorage();
Carrito(raw) == loadFromStorage(<<>>, raw)

\* add with a plausible slip: a known id takes the incoming product's fields.
addOverwrite(its, raw, producto, writeOk) ==
  LET id == getId(producto)
      its2 == IF MapHas(its, id)
                THEN MapSet(its, id, [producto EXCEPT
                                        !.cantidad = MapGet(its, id).cantidad + 1])
                ELSE MapSet(its, id, producto)
  IN  saveToStorage(its2, raw, writeOk)

\* add with a plausible slip: a known id is deleted and set again, which
\* moves it to the end.
addMoveToEnd(its, raw, producto, writeOk) ==
  LET id == getId(producto)
      its2 == IF MapHas(its, id)
                THEN Append(MapDelete(its, id),
                            [MapGet(its, id) EXCEPT !.cantidad = @ + 1])
                ELSE MapSet(its, id, producto)
  IN  saveToStorage(its2, raw, writeOk)

add(its, raw, producto, writeOk) ==
  LET id == getId(producto)
      its2 == IF MapHas(its, id)
                THEN [its EXCEPT ![MapIndex(its, id)].cantidad = @ + 1]
                ELSE MapSet(its, id, producto)
  IN  saveToStorage(its2, raw, writeOk)

\* remove with a plausible slip: the store is not persisted afterwards.
removeNoSave(its, raw, id, writeOk) ==
  [items |-> MapDelete(its, id), raw |-> raw, thrown |-> FALSE]

remove(its, raw, id, writeOk) == saveToStorage(MapDelete(its, id), raw, writeOk)

\* updateQty with a plausible slip: no test that the id is known, so that
\* p.cantidad = qty is an assignment to undefined, a TypeError.
updateQtyNoGuard(its, raw, id, qty, writeOk) ==
  IF ~MapHas(its, id) THEN [items |-> its, raw |-> raw, thrown |-> TRUE]
  ELSE LET its2 == [its EXCEPT ![MapIndex(its, id)].cantidad = qty]
           its3 == IF qty <= 0 THEN MapDelete(its2, id) ELSE its2
       IN  saveToStorage(its3, raw, writeOk)

\* updateQty with a plausible slip: only a negative quantity removes.
updateQtyStrict(its, raw, id, qty, writeOk) ==
  IF ~MapHas(its, id) THEN [items |-> its, raw |-> raw, thrown |-> FALSE]
  ELSE LET its2 == [its EXCEPT ![MapIndex(its, id)].cantidad = qty]
           its3 == IF qty < 0 THEN MapDelete(its2, id) ELSE its2
       IN  saveToStorage(its3, raw, writeOk)

updateQty(its, raw, id, qty, writeOk) ==
  IF ~MapHas(its, id) THEN [items |-> its, raw |-> raw, thrown |-> FALSE]
  ELSE LET its2 == [its EXCEPT ![MapIndex(its, id)].cantidad = qty]
           its3 == IF qty <= 0 THEN MapDelete(its2, id) ELSE its2
       IN  saveToStorage(its3, raw, writeOk)

clear(its, raw, writeOk) == saveToStorage(<<>>, raw, writeOk)

(***************************************************************************)
(* Inputs of the model.                                                    *)
(***************************************************************************)
Ids == {"p1", "p2"}

Cupcake ==
  [nombre |-> "Cupcake", label |-> <<"S", "/", " ", "5", ".", "0", "0">>,
   categoria |-> undefined]

Torta ==
  [nombre |-> "Torta", label |-> <<"S", "/", " ", "3", "0", "0", ".", "0", "0">>,
   categoria |-> "tortas"]

Catalogo == {Cupcake, Torta}

\* The product a caller builds for id from a catalogue line, its price parsed
\* from the label as discovery does.
NuevoProducto(id, c) == Producto(id, c.nombre, parsePrice(c.label), c.categoria)

QtyInputs == (0 - 1)..MaxQty

\* Quantities found in stored records at page load.
BlobQtys == {0, 2}

BlobRecords ==
  {EntryRecord([NuevoProducto(id, c) EXCEPT !.cantidad = q]) :
     id \in Ids, c \in Catalogo, q \in BlobQtys}

BlobElems == BlobRecords \cup {JNull}

BlobArrays == UNION {[1..n -> BlobElems] : n \in 0..MaxBlobLen}

\* What localStorage may hold under 'skb_carrito' when the page loads.
Blobs ==
  {NoItem, EmptyText, GarbageText, JSONstringify(JNull), JSONstringify(JNum(5))}
  \cup {JSONstringify(JArr(a)) : a \in BlobArrays}

(***************************************************************************)
(* The page: its product cards and the widget the script injects.          *)
(*                                                                         *)
(* A card carries its data-id attribute and element id ("" when not set),  *)
(* its heading and price texts when it has them, whether the markup holds  *)
(* an element of class btn-add-cart, its dataset.productId, the add        *)
(* buttons the script appended (each with the id and name its click        *)
(* handler closes over) and the number of click listeners on the card.     *)
(***************************************************************************)
Card(dataId, elId, hasHeading, heading, hasPrice, price, markupBtn) ==
  [dataId |-> dataId, elId |-> elId, hasHeading |-> hasHeading,
   heading |-> heading, hasPrice |-> hasPrice, price |-> price,
   markupBtn |-> markupBtn, productId |-> "", btns |-> <<>>,
   clickListeners |-> 0]

\* The shop page: a card with a data-id, a card with no id, heading or price,
\* a second card with the data-id of the first, and a card with an element id
\* whose markup already holds an add control.
PaginaTienda ==
  <<Card("p1", "", TRUE, Cupcake.nombre, TRUE, Cupcake.label, FALSE),
    Card("", "", FALSE, "", FALSE, <<>>, FALSE),
    Card("p1", "", TRUE, Torta.nombre, TRUE, Torta.label, FALSE),
    Card("", "p2", TRUE, Torta.nombre, TRUE, Torta.label, TRUE)>>

Pages == {PaginaTienda}

\* Values of Date.now() % 100000 when the script is evaluated.
Seeds == {41}

\* What localStorage may hold when a page of the site loads.
AppBlobs ==
  {NoItem, GarbageText,
   JSONstringify(JArr(<<EntryRecord([NuevoProducto("p1", Torta)
                                       EXCEPT !.cantidad = 2])>>)),
   JSONstringify(JArr(<<EntryRecord([NuevoProducto("p2", Torta)
                                       EXCEPT !.cantidad = 0]), JNull>>))}

Keys == {"c", "C", "Escape", "a"}

\* String.prototype.toLowerCase on the keys of the model.
toLowerCase(key) == IF key = "C" THEN "c" ELSE key

NoContent == [msg |-> FALSE, rows |-> <<>>]

NoAlert == [kind |-> "", total |-> <<>>]

NoToast == [exists |-> FALSE, text |-> "", visible |-> FALSE]

\* The state the script's evaluation leaves: the store hydrated, the
\* registry empty, no widget yet.
Evaluated(raw, page, seed) ==
  LET c == Carrito(raw)
  IN  [items |-> c.items, raw |-> c.raw, thrown |-> c.thrown,
       productosMap |-> <<>>, cards |-> page, contador |-> seed,
       cartBtn |-> FALSE, btnListeners |-> 0, badge |-> "",
       modal |-> FALSE, attached |-> FALSE, content |-> NoContent,
       totalEl |-> <<>>, toast |-> NoToast, toastTimer |-> 0,
       timers |-> {}, alerta |-> NoAlert]

\* The store part of a taken from the result r of a Carrito method.
WithStore(a, r) ==
  [a EXCEPT !.items = r.items, !.raw = r.raw, !.thrown = r.thrown]

\* `p-${++contador}`
\* generarId with a plausible slip: the counter plays no part in the id.
generarIdConstante(a) == "p-0"

generarId(a) == "p-" \o ToString(a.contador + 1)

HasAddBtn(card) == card.markupBtn \/ Len(card.btns) > 0

\* The for-of loop of descubrirProductosEnPagina from card i on.
RECURSIVE DiscoverLoop(_, _)
DiscoverLoop(a, i) ==
  IF i > Len(a.cards) THEN a
  ELSE
    LET card == a.cards[i]
        gen  == card.dataId = "" /\ card.elId = ""
        id   == IF card.dataId # "" THEN card.dataId
                ELSE IF card.elId # "" THEN card.elId
                ELSE generarId(a)
        a1   == [a EXCEPT !.contador = IF gen THEN @ + 1 ELSE @,
                          !.cards[i].productId = id]
    IN  IF MapHas(a1.productosMap, id) THEN DiscoverLoop(a1, i + 1)
        ELSE
          LET nombre   == IF card.hasHeading THEN card.heading
                          ELSE "Producto " \o ToString(i)
              precio   == IF card.hasPrice THEN parsePrice(card.price) ELSE 0
              producto == Producto(id, nombre, precio, undefined)
              a2 == [a1 EXCEPT !.productosMap = MapSet(@, id, producto)]
              a3 == IF ~HasAddBtn(card)
                      THEN [a2 EXCEPT
                              !.cards[i].btns =
                                 Append(@, [id |-> id, nombre |-> nombre]),
                              !.cards[i].clickListeners = @ + 1]
                      ELSE a2
          IN  DiscoverLoop(a3, i + 1)

descubrirProductosEnPagina(a) == DiscoverLoop(a, 1)

ensureCartButton(a) ==
  IF a.cartBtn THEN a
  ELSE [a EXCEPT !.cartBtn = TRUE, !.badge = "0", !.btnListeners = @ + 1]

actualizarContadorCarrito(a) ==
  [ensureCartButton(a) EXCEPT !.badge = ToString(getCount(a.items))]

\* The rows renderMiniCarrito builds, one per entry; handlers counts the
\* click handlers on each of the row's three buttons.
Row(p) ==
  [nombre   |-> p.nombre,
   precio   |-> formatPrice(p.precio),
   cantidad |-> ToString(p.cantidad),
   id       |-> getId(p),
   handlers |-> 0]

\* A binding that leaves two handlers on each button of the row.
BindTwice(row) == [row EXCEPT !.handlers = 2]

\* btn.onclick = ...: the button has this one handler, whatever it had.
Bind(row) == [row EXCEPT !.handlers = 1]

TotalText(its) == <<"T", "o", "t", "a", "l", ":", " ">> \o formatPrice(getTotal(its))

\* content and totalEl are looked up in the document: a modal that is not
\* attached has neither, and the function returns at once.
renderMiniCarrito(a) ==
  IF ~a.attached THEN a
  ELSE LET its == getItemsArray(a.items)
       IN  [a EXCEPT
              !.content = IF Len(its) = 0 THEN [msg |-> TRUE, rows |-> <<>>]
                          ELSE [msg |-> FALSE,
                                rows |-> [i \in 1..Len(its) |->
                                           Bind(Row(its[i]))]],
              !.totalEl = TotalText(a.items)]

openCartModal(a) ==
  LET a1 == IF ~a.modal
              THEN [a EXCEPT !.modal = TRUE, !.attached = TRUE,
                             !.content = NoContent,
                             !.totalEl = TotalText(a.items)]
              ELSE a
  IN  renderMiniCarrito(a1)

\* clearTimeout(id): the pending timers without id.
clearTimeout(pending, id) == pending \ {id}

\* setTimeout: the id of the new timer.  A browser never hands out the id
\* of a pending timer; ids that name no pending timer are interchangeable,
\* and the model hands out the smallest.
setTimeout(pending) ==
  CHOOSE t \in 1..(Cardinality(pending) + 1) :
    /\ t \notin pending
    /\ \A u \in 1..(t - 1) : u \in pending

\* mostrarToast without the cancelling of the pending hide.
mostrarToastSinCancelar(a, text) ==
  LET t == setTimeout(a.timers)
  IN  [a EXCEPT
         !.toast = [exists |-> TRUE, text |-> text, visible |-> TRUE],
         !.timers = a.timers \cup {t},
         !.toastTimer = t]

mostrarToast(a, text) ==
  LET pending == IF a.toastTimer # 0 THEN clearTimeout(a.timers, a.toastTimer)
                 ELSE a.timers
      t == setTimeout(pending)
  IN  [a EXCEPT
         !.toast = [exists |-> TRUE, text |-> text, visible |-> TRUE],
         !.timers = pending \cup {t},
         !.toastTimer = t]

\* agregarProductoAlCarritoDesdeBoton without its call of
\* actualizarContadorCarrito.
agregarSinContador(a, id, writeOk) ==
  IF ~MapHas(a.productosMap, id) THEN a
  ELSE LET p == MapGet(a.productosMap, id)
           nuevo == Producto(getId(p), p.nombre, p.precio, p.categoria)
           a1 == WithStore(a, add(a.items, a.raw, nuevo, writeOk))
       IN  IF a1.thrown THEN a1
           ELSE renderMiniCarrito(a1)

\* agregarProductoAlCarritoDesdeBoton passing the registry's product itself
\* instead of a copy: the cart entry and the registry product are then one
\* object, and the quantity the store gives the entry shows in the registry.
agregarSinCopia(a, id, writeOk) ==
  IF ~MapHas(a.productosMap, id) THEN a
  ELSE LET p == MapGet(a.productosMap, id)
           a1 == WithStore(a, add(a.items, a.raw, p, writeOk))
           a2 == [a1 EXCEPT !.productosMap =
                    MapSet(@, id, [p EXCEPT !.cantidad = QtyOf(a1.items, id)])]
       IN  IF a2.thrown THEN a2
           ELSE renderMiniCarrito(actualizarContadorCarrito(a2))

agregarProductoAlCarritoDesdeBoton(a, id, writeOk) ==
  IF ~MapHas(a.productosMap, id) THEN a
  ELSE LET p == MapGet(a.productosMap, id)
           nuevo == Producto(getId(p), p.nombre, p.precio, p.categoria)
           a1 == WithStore(a, add(a.items, a.raw, nuevo, writeOk))
       IN  IF a1.thrown THEN a1
           ELSE renderMiniCarrito(actualizarContadorCarrito(a1))

(***************************************************************************)
(* The event handlers.                                                     *)
(***************************************************************************)
\* The click listener of a synthesized add button, closing over id and
\* nombre.
addButtonHandler(a, id, nombre, writeOk) ==
  LET a1 == agregarProductoAlCarritoDesdeBoton(a, id, writeOk)
  IN  IF a1.thrown THEN a1
      ELSE mostrarToast(a1, nombre \o " agregado al carrito")

\* The timeout callback of mostrarToast.
toastTimeout(a, t) ==
  [a EXCEPT !.toast.visible = FALSE, !.timers = @ \ {t}]

\* closeBtn's click listener: modal.remove()
closeHandler(a) == [a EXCEPT !.attached = FALSE]

clearHandler(a, writeOk) ==
  LET a1 == WithStore(a, clear(a.items, a.raw, writeOk))
  IN  IF a1.thrown THEN a1
      ELSE actualizarContadorCarrito(renderMiniCarrito(a1))

\* The checkout handler without its guard on an empty cart.
checkoutSinGuarda(a, writeOk) ==
  LET a1 == [a EXCEPT !.alerta =
               [kind |-> "gracias",
                total |-> formatPrice(getTotal(a.items))]]
      a2 == WithStore(a1, clear(a1.items, a1.raw, writeOk))
  IN  IF a2.thrown THEN a2
      ELSE actualizarContadorCarrito(renderMiniCarrito(a2))

checkoutHandler(a, writeOk) ==
  IF getCount(a.items) = 0
    THEN [a EXCEPT !.alerta = [kind |-> "vacio", total |-> <<>>]]
    ELSE LET a1 == [a EXCEPT !.alerta =
                      [kind |-> "gracias",
                       total |-> formatPrice(getTotal(a.items))]]
             a2 == WithStore(a1, clear(a1.items, a1.raw, writeOk))
         IN  IF a2.thrown THEN a2
             ELSE actualizarContadorCarrito(renderMiniCarrito(a2))

\* The onclick of a line's decrease (delta -1) or increase (delta 1) button.
stepHandler(a, id, delta, writeOk) ==
  IF ~MapHas(getItemsArray(a.items), id) THEN a
  ELSE LET p == MapGet(a.items, id)
           a1 == WithStore(a, updateQty(a.items, a.raw, id,
                                        p.cantidad + delta, writeOk))
       IN  IF a1.thrown THEN a1
           ELSE actualizarContadorCarrito(renderMiniCarrito(a1))

\* A click on a decrease or increase button that has n handlers: each runs.
RECURSIVE clickStep(_, _, _, _, _)
clickStep(a, n, id, delta, writeOk) ==
  IF n = 0 THEN a
  ELSE clickStep(stepHandler(a, id, delta, writeOk), n - 1, id, delta, writeOk)

\* The onclick of a line's remove button.
removeHandler(a, id, writeOk) ==
  LET a1 == WithStore(a, remove(a.items, a.raw, id, writeOk))
  IN  IF a1.thrown THEN a1
      ELSE actualizarContadorCarrito(renderMiniCarrito(a1))

\* A click on a remove button that has n handlers.
RECURSIVE clickRemove(_, _, _, _)
clickRemove(a, n, id, writeOk) ==
  IF n = 0 THEN a
  ELSE clickRemove(removeHandler(a, id, writeOk), n - 1, id, writeOk)

\* The document's keydown listener.
keydownHandler(a, key) ==
  LET a1 == IF toLowerCase(key) = "c" THEN openCartModal(a) ELSE a
  IN  IF key = "Escape" THEN [a1 EXCEPT !.attached = FALSE] ELSE a1

\* DOMContentLoaded: discovery, the cart button and its badge.  The other
\* steps (global listeners, the propagation demo, the year) leave the state
\* of the model as it is.
inicializarApp(a) ==
  actualizarContadorCarrito(ensureCartButton(descubrirProductosEnPagina(a)))

(***************************************************************************)
(* State.                                                                  *)
(***************************************************************************)
VARIABLES
  items,        \* Carrito.#items
  storage,      \* localStorage['skb_carrito']
  productosMap, \* the discovery registry
  contador,     \* generarId's counter
  cards,        \* the product cards of the page
  cartBtn,      \* whether the floating cart button is in the page
  btnListeners, \* click listeners on the floating cart button
  badge,        \* text of the count badge
  modal,        \* whether the variable modal holds the modal element
  attached,     \* whether the modal element is in the page
  content,      \* the modal's rendered lines
  totalEl,      \* the modal's rendered total
  toast,        \* the toast element
  toastTimer,   \* the variable toastTimer: 0 for null, else a timer id
  timers,       \* the hide timers that are pending
  alerta,       \* the alert the last handler showed
  uncaught,     \* whether the last operation raised an error to its caller
  lastOp,       \* history: the last operation on the store, or the last
                \* opening or closing of the modal, with its arguments
                \* and its write
  failures,     \* history: storage writes that failed so far
  adds,         \* history: per id, the add calls of the current run of adds
  first,        \* history: per id, the product passed to the run's first add
  arg,          \* the argument of the helper function under study
  ret           \* what the calls of the helper functions returned

storeVars == <<items, storage, uncaught>>

uiVars ==
  <<productosMap, contador, cards, cartBtn, btnListeners, badge, modal,
    attached, content, totalEl, toast, toastTimer, timers, alerta>>

histVars == <<lastOp, failures, adds, first>>

fnVars == <<arg, ret>>

vars == <<storeVars, uiVars, histVars, fnVars>>

\* No helper function is under study.
NoArg == <<>>

NoRet == [op |-> "none"]

\* The ids discovery can give a card of the model's pages.
AllIds ==
  Ids \cup {"p-" \o ToString(s + k) :
              s \in Seeds, k \in UNION {DOMAIN page : page \in Pages}}

NoProducto == Producto("", "", 0, undefined)

Op(op, id, qty, prod, had, write) ==
  [op |-> op, id |-> id, qty |-> qty, prod |-> prod, had |-> had,
   write |-> write]

WriteOf(writeOk) == IF writeOk THEN "ok" ELSE "failed"

\* A write may fail only while the run's budget of failures lasts.
MayWrite(writeOk) == writeOk \/ failures < MaxFailures

\* The page's state as one record, and back.
Now ==
  [items |-> items, raw |-> storage, thrown |-> FALSE,
   productosMap |-> productosMap, cards |-> cards, contador |-> contador,
   cartBtn |-> cartBtn, btnListeners |-> btnListeners, badge |-> badge,
   modal |-> modal, attached |-> attached, content |-> content,
   totalEl |-> totalEl, toast |-> toast, toastTimer |-> toastTimer,
   timers |-> timers, alerta |-> NoAlert]

StartsPage(a) ==
  /\ items = a.items /\ storage = a.raw /\ uncaught = a.thrown
  /\ productosMap = a.productosMap /\ cards = a.cards
  /\ contador = a.contador /\ cartBtn = a.cartBtn
  /\ btnListeners = a.btnListeners /\ badge = a.badge /\ modal = a.modal
  /\ attached = a.attached /\ content = a.content /\ totalEl = a.totalEl
  /\ toast = a.toast /\ toastTimer = a.toastTimer /\ timers = a.timers
  /\ alerta = a.alerta

Starts(a) == StartsPage(a) /\ arg = NoArg /\ ret = NoRet

Commit(a) ==
  /\ items' = a.items /\ storage' = a.raw /\ uncaught' = a.thrown
  /\ productosMap' = a.productosMap /\ cards' = a.cards
  /\ contador' = a.contador /\ cartBtn' = a.cartBtn
  /\ btnListeners' = a.btnListeners /\ badge' = a.badge /\ modal' = a.modal
  /\ attached' = a.attached /\ content' = a.content /\ totalEl' = a.totalEl
  /\ toast' = a.toast /\ toastTimer' = a.toastTimer /\ timers' = a.timers
  /\ alerta' = a.alerta
  /\ UNCHANGED fnVars

Store(r) ==
  /\ items' = r.items
  /\ storage' = r.raw
  /\ uncaught' = r.thrown
  /\ UNCHANGED <<uiVars, fnVars>>

\* The history of runs of adds.
TrackReset ==
  /\ adds' = [id \in AllIds |-> 0]
  /\ first' = [id \in AllIds |-> NoProducto]

TrackTouch(id) ==
  /\ adds' = [adds EXCEPT ![id] = 0]
  /\ first' = [first EXCEPT ![id] = NoProducto]

TrackAdd(id, producto) ==
  IF ~MapHas(items, id)
    THEN /\ adds' = [adds EXCEPT ![id] = 1]
         /\ first' = [first EXCEPT ![id] = producto]
    ELSE /\ adds' = [adds EXCEPT ![id] = IF @ > 0 THEN @ + 1 ELSE 0]
         /\ UNCHANGED first

TrackWrite(attempted, writeOk) ==
  failures' = IF attempted /\ ~writeOk THEN failures + 1 ELSE failures

\* The class alone: the script evaluated over a page without cards.
Init ==
  /\ \E raw \in Blobs : Starts(Evaluated(raw, <<>>, 0))
  /\ lastOp = Op("construct", "", 0, NoProducto, FALSE, "none")
  /\ failures = 0
  /\ adds = [id \in AllIds |-> 0]
  /\ first = [id \in AllIds |-> NoProducto]

(***************************************************************************)
(* The operations of the store, as a caller of the class drives them.      *)
(***************************************************************************)
\* new Carrito() over the stored text: a page reload.
Construct ==
  /\ Store(Carrito(storage))
  /\ lastOp' = Op("construct", "", 0, NoProducto, FALSE, "none")
  /\ TrackReset
  /\ UNCHANGED failures

Add(id, c, writeOk) ==
  /\ MayWrite(writeOk)
  /\ MapHas(items, id) => MapGet(items, id).cantidad < MaxQty
  /\ Store(add(items, storage, NuevoProducto(id, c), writeOk))
  /\ lastOp' = Op("add", id, 0, NuevoProducto(id, c), MapHas(items, id),
                  WriteOf(writeOk))
  /\ TrackWrite(TRUE, writeOk)
  /\ TrackAdd(id, NuevoProducto(id, c))

Remove(id, writeOk) ==
  /\ MayWrite(writeOk)
  /\ Store(remove(items, storage, id, writeOk))
  /\ lastOp' = Op("remove", id, 0, NoProducto, MapHas(items, id),
                  WriteOf(writeOk))
  /\ TrackWrite(TRUE, writeOk)
  /\ TrackTouch(id)

UpdateQty(id, qty, writeOk) ==
  /\ MapHas(items, id) => MayWrite(writeOk)
  /\ ~MapHas(items, id) => writeOk
  /\ Store(updateQty(items, storage, id, qty, writeOk))
  /\ lastOp' = Op("updateQty", id, qty, NoProducto, MapHas(items, id),
                  IF MapHas(items, id) THEN WriteOf(writeOk) ELSE "none")
  /\ TrackWrite(MapHas(items, id), writeOk)
  /\ TrackTouch(id)

Clear(writeOk) ==
  /\ MayWrite(writeOk)
  /\ Store(clear(items, storage, writeOk))
  /\ lastOp' = Op("clear", "", 0, NoProducto, FALSE, WriteOf(writeOk))
  /\ TrackWrite(TRUE, writeOk)
  /\ TrackReset

Next ==
  \/ Construct
  \/ \E id \in Ids, c \in Catalogo, writeOk \in BOOLEAN : Add(id, c, writeOk)
  \/ \E id \in Ids, writeOk \in BOOLEAN : Remove(id, writeOk)
  \/ \E id \in Ids, qty \in QtyInputs, writeOk \in BOOLEAN :
       UpdateQty(id, qty, writeOk)
  \/ \E writeOk \in BOOLEAN : Clear(writeOk)

Spec == Init /\ [][Next]_vars

(***************************************************************************)
(* The page: its load and the events a visitor and the timers raise.       *)
(***************************************************************************)
AppInit ==
  /\ \E raw \in AppBlobs, page \in Pages, seed \in Seeds :
       Starts(inicializarApp(Evaluated(raw, page, seed)))
  /\ lastOp = Op("construct", "", 0, NoProducto, FALSE, "none")
  /\ failures = 0
  /\ adds = [id \in AllIds |-> 0]
  /\ first = [id \in AllIds |-> NoProducto]

\* The visitor reloads or follows a link to a page of the site.
Load(page, seed) ==
  /\ Commit(inicializarApp(Evaluated(storage, page, seed)))
  /\ lastOp' = Op("construct", "", 0, NoProducto, FALSE, "none")
  /\ TrackReset
  /\ UNCHANGED failures

\* A click on the b-th add button the script appended to card k.
AddClick(k, b, writeOk) ==
  /\ k \in 1..Len(cards) /\ b \in 1..Len(cards[k].btns)
  /\ MayWrite(writeOk)
  /\ LET id == cards[k].btns[b].id
         p  == MapGet(productosMap, id)
     IN  /\ MapHas(items, id) => MapGet(items, id).cantidad < MaxQty
         /\ Commit(addButtonHandler(Now, id, cards[k].btns[b].nombre, writeOk))
         /\ lastOp' = Op("add", id, 0,
                         Producto(getId(p), p.nombre, p.precio, p.categoria),
                         MapHas(items, id), WriteOf(writeOk))
         /\ TrackWrite(TRUE, writeOk)
         /\ TrackAdd(id, Producto(getId(p), p.nombre, p.precio, p.categoria))

\* A click on the cart button.  In the history had tells, for an opening,
\* whether the modal existed and was out of the document before.
ToggleClick ==
  /\ cartBtn
  /\ Commit(openCartModal(Now))
  /\ lastOp' = Op("open", "", 0, NoProducto, modal /\ ~attached, "none")
  /\ UNCHANGED <<failures, adds, first>>

KeyDown(key) ==
  /\ Commit(keydownHandler(Now, key))
  /\ lastOp' = IF toLowerCase(key) = "c"
                THEN Op("open", "", 0, NoProducto, modal /\ ~attached, "none")
              ELSE IF key = "Escape"
                THEN Op("close", "", 0, NoProducto, modal, "none")
              ELSE lastOp
  /\ UNCHANGED <<failures, adds, first>>

\* A click on the close button of the modal.
CloseClick ==
  /\ attached
  /\ Commit(closeHandler(Now))
  /\ lastOp' = Op("close", "", 0, NoProducto, modal, "none")
  /\ UNCHANGED <<failures, adds, first>>

\* A click on the decrease or increase button of the modal's line i.
StepClick(i, delta, writeOk) ==
  /\ attached /\ i \in 1..Len(content.rows)
  /\ MayWrite(writeOk)
  /\ LET id == content.rows[i].id
     IN  /\ (delta = 1 /\ MapHas(items, id)) =>
              MapGet(items, id).cantidad < MaxQty
         /\ Commit(clickStep(Now, content.rows[i].handlers, id, delta,
                            writeOk))
         /\ lastOp' = Op("updateQty", id, QtyOf(items, id) + delta, NoProducto,
                         MapHas(items, id),
                         IF MapHas(items, id) THEN WriteOf(writeOk) ELSE "none")
         /\ TrackWrite(MapHas(items, id), writeOk)
         /\ TrackTouch(id)

RemoveClick(i, writeOk) ==
  /\ attached /\ i \in 1..Len(content.rows)
  /\ MayWrite(writeOk)
  /\ LET id == content.rows[i].id
     IN  /\ Commit(clickRemove(Now, content.rows[i].handlers, id, writeOk))
         /\ lastOp' = Op("remove", id, 0, NoProducto, MapHas(items, id),
                         WriteOf(writeOk))
         /\ TrackWrite(TRUE, writeOk)
         /\ TrackTouch(id)

ClearClick(writeOk) ==
  /\ attached
  /\ MayWrite(writeOk)
  /\ Commit(clearHandler(Now, writeOk))
  /\ lastOp' = Op("clear", "", 0, NoProducto, FALSE, WriteOf(writeOk))
  /\ TrackWrite(TRUE, writeOk)
  /\ TrackReset

CheckoutClick(writeOk) ==
  /\ attached
  /\ MayWrite(writeOk)
  /\ getCount(items) = 0 => writeOk
  /\ Commit(checkoutHandler(Now, writeOk))
  /\ IF getCount(items) = 0 THEN UNCHANGED histVars
     ELSE /\ lastOp' = Op("clear", "", 0, NoProducto, FALSE, WriteOf(writeOk))
          /\ TrackWrite(TRUE, writeOk)
          /\ TrackReset

\* A pending hide timer of the toast fires.
ToastTimeout(t) ==
  /\ t \in timers
  /\ Commit(toastTimeout(Now, t))
  /\ UNCHANGED histVars

AppNext ==
  \/ \E page \in Pages, seed \in Seeds : Load(page, seed)
  \/ \E k \in DOMAIN cards : \E b \in DOMAIN cards[k].btns :
       \E writeOk \in BOOLEAN : AddClick(k, b, writeOk)
  \/ ToggleClick
  \/ \E key \in Keys : KeyDown(key)
  \/ CloseClick
  \/ \E i \in DOMAIN content.rows, delta \in {0 - 1, 1}, writeOk \in BOOLEAN :
       StepClick(i, delta, writeOk)
  \/ \E i \in DOMAIN content.rows, writeOk \in BOOLEAN : RemoveClick(i, writeOk)
  \/ \E writeOk \in BOOLEAN : ClearClick(writeOk)
  \/ \E writeOk \in BOOLEAN : CheckoutClick(writeOk)
  \/ \E t \in timers : ToastTimeout(t)

AppSpec == AppInit /\ [][AppNext]_vars

\* The page with its timers: a hide timer that stays pending fires.  A
\* reload discards the pending timers with the page.
AppLive == AppSpec /\ WF_vars(\E t \in timers : ToastTimeout(t))

(***************************************************************************)
(* Discovery alone: descubrirProductosEnPagina called, and called again,   *)
(* over pages built from the kinds of card the markup may hold.            *)
(***************************************************************************)
MaxCards == 3       \* cards on a scanned page
MaxScans == 2       \* calls of descubrirProductosEnPagina over one page

\* A card with a data-id, one with an element id, one with neither id nor
\* heading nor price, one with both ids, one whose markup holds an add
\* control, and one whose data-id reads like a generated id.
CardKinds ==
  {Card("p1", "", TRUE, Cupcake.nombre, TRUE, Cupcake.label, FALSE),
   Card("", "p2", TRUE, Torta.nombre, TRUE, Torta.label, FALSE),
   Card("", "", FALSE, "", FALSE, <<>>, FALSE),
   Card("p2", "p1", TRUE, Torta.nombre, FALSE, <<>>, FALSE),
   Card("p1", "", TRUE, Torta.nombre, TRUE, Torta.label, TRUE),
   Card("p-42", "", TRUE, Cupcake.nombre, TRUE, Cupcake.label, FALSE)}

ScanPages == UNION {[1..n -> CardKinds] : n \in 0..MaxCards}

\* Values of Date.now() % 100000 when the script is evaluated: one that
\* makes the first generated id read like the last kind of card's data-id,
\* and the largest.
ScanSeeds == {41, 99999}

ScanInit ==
  /\ \E page \in ScanPages, seed \in ScanSeeds :
       Starts(Evaluated(NoItem, page, seed))
  /\ lastOp = Op("construct", "", 0, NoProducto, FALSE, "none")
  /\ failures = 0
  /\ adds = [id \in AllIds |-> 0]
  /\ first = [id \in AllIds |-> NoProducto]

\* One call of descubrirProductosEnPagina; qty counts the calls so far.
Scan ==
  /\ lastOp.qty < MaxScans
  /\ Commit(descubrirProductosEnPagina(Now))
  /\ lastOp' = Op("scan", "", lastOp.qty + 1, NoProducto, FALSE, "none")
  /\ UNCHANGED <<failures, adds, first>>

ScanNext == Scan

ScanSpec == ScanInit /\ [][ScanNext]_vars

(***************************************************************************)
(* The price helpers alone: parsePrice called on a value, formatPrice on   *)
(* what it returned.                                                       *)
(***************************************************************************)
MaxCents == 120     \* largest of the small amounts, in hundredths

Str(s) == [kind |-> "string", s |-> s]

\* The amounts of the labels: the small ones, hundredth by hundredth, and
\* some large ones.
LabelAmounts ==
  {Amount(0, k) : k \in 0..MaxCents}
  \cup {Amount(300, 0), Amount(1234, 56), Amount(99999, 99)}

\* The labels formatPrice writes for them.
WellFormed == {Str(formatPrice(x)) : x \in LabelAmounts}

\* null, the empty string and texts without a digit.
DigitFree ==
  {[kind |-> "null"], Str(<<>>), Str(<<"S", "/", " ">>),
   Str(<<"g", "r", "a", "t", "i", "s">>), Str(<<".">>), Str(<<",">>),
   Str(<<"-">>), Str(<<"S", "/", " ", ",", ".">>)}

PriceInputs == WellFormed \cup DigitFree

PriceInit ==
  /\ StartsPage(Evaluated(NoItem, <<>>, 0))
  /\ lastOp = Op("construct", "", 0, NoProducto, FALSE, "none")
  /\ failures = 0
  /\ adds = [id \in AllIds |-> 0]
  /\ first = [id \in AllIds |-> NoProducto]
  /\ arg \in PriceInputs
  /\ ret = NoRet

ParsePrice ==
  /\ ret.op = "none"
  /\ ret' = [op |-> "parsePrice", thrown |-> parsePriceOf(arg).thrown,
             n |-> parsePriceOf(arg).n, label |-> <<>>]
  /\ UNCHANGED <<storeVars, uiVars, histVars, arg>>

FormatPrice ==
  /\ ret.op = "parsePrice" /\ ~ret.thrown
  /\ ret' = [ret EXCEPT !.op = "formatPrice", !.label = formatPrice(ret.n)]
  /\ UNCHANGED <<storeVars, uiVars, histVars, arg>>

\* The next value to study.
NextArg ==
  /\ ret.op = "formatPrice"
  /\ arg' \in PriceInputs
  /\ ret' = NoRet
  /\ UNCHANGED <<storeVars, uiVars, histVars>>

PriceNext == ParsePrice \/ FormatPrice \/ NextArg

PriceSpec == PriceInit /\ [][PriceNext]_vars

(***************************************************************************)
(* Vocabulary of the properties.                                           *)
(***************************************************************************)
MutOps == {"add", "remove", "updateQty", "clear"}

\* The entries of its other than id's, in order.
Others(its, id) == SelectSeq(its, LAMBDA e : e.id # id)

RECURSIVE SumOver(_, _)
SumOver(S, f) ==
  IF S = {} THEN 0
  ELSE LET x == CHOOSE y \in S : TRUE
       IN  f[x] + SumOver(S \ {x}, f)

\* What a page reload would build from the stored text.
Reloaded(raw) == Carrito(raw).items

(***************************************************************************)
(* Properties.                                                             *)
(***************************************************************************)

\* C1: in every reachable state of the store, hydrated from any stored array
\* of entry records and after any add, remove, updateQty and clear, every
\* entry has quantity >= 1.
C1_QuantityAtLeastOne == \A i \in 1..Len(items) : items[i].cantidad >= 1

\* C2: after a run of n >= 1 add calls for one id that began with the id
\* absent, with no other operation on the id in between, the store holds
\* exactly one entry for the id, its quantity is n, and its name, price and
\* category are those of the product passed to the first add.
C2_AddMerges ==
  \A id \in Ids :
    adds[id] >= 1 =>
      /\ Cardinality({i \in 1..Len(items) : items[i].id = id}) = 1
      /\ MapGet(items, id).cantidad = adds[id]
      /\ MapGet(items, id).nombre = first[id].nombre
      /\ MapGet(items, id).precio = first[id].precio
      /\ MapGet(items, id).categoria = first[id].categoria

\* A run of at least two adds whose last product differs from the first.
C2_Witness ==
  \E id \in Ids :
    /\ adds[id] >= 2
    /\ lastOp.op = "add" /\ lastOp.id = id
    /\ lastOp.prod.nombre # first[id].nombre
    /\ lastOp.prod.precio # first[id].precio

\* C3: while storage writes succeed, after each add, remove, updateQty or
\* clear the stored text decodes to exactly the in-memory entry list: a
\* reload would rebuild it, and the text a write left is the JSON array of
\* the entries' ids, names, prices, categories and quantities, in order.
C3_PersistedInSync ==
  (failures = 0 /\ lastOp.op \in MutOps) =>
    /\ Reloaded(storage) = items
    /\ lastOp.write = "ok" =>
         /\ storage.kind = "json"
         /\ storage.doc.t = "arr"
         /\ Len(storage.doc.a) = Len(items)
         /\ \A i \in 1..Len(items) :
              /\ storage.doc.a[i].t = "obj"
              /\ storage.doc.a[i].m.id = JStr(items[i].id)
              /\ storage.doc.a[i].m.nombre = JStr(items[i].nombre)
              /\ storage.doc.a[i].m.precio = JNum(items[i].precio)
              /\ storage.doc.a[i].m.categoria = JStr(items[i].categoria)
              /\ storage.doc.a[i].m.cantidad = JNum(items[i].cantidad)

\* A successful write of two entries, one of them with a merged quantity.
C3_Witness ==
  /\ failures = 0
  /\ lastOp.op \in MutOps /\ lastOp.write = "ok"
  /\ Len(items) = 2
  /\ \E i \in 1..Len(items) : items[i].cantidad >= 2

\* C4: for every cart state the operations reach, serialising it with
\* saveToStorage and constructing a new store from that text yields the same
\* entries: the same ids, each with the same quantity, price, name and
\* category.
C4_RoundTrip == Carrito(saveToStorage(items, storage, TRUE).raw).items = items

\* A cart of two different products, with quantities other than the
\* constructor's default, reached by an update.
C4_Witness ==
  /\ lastOp.op = "updateQty" /\ lastOp.had
  /\ Len(items) = 2
  /\ items[1].nombre # items[2].nombre
  /\ \A i \in 1..Len(items) : items[i].cantidad >= 2

\* A stored text that is not the JSON of an array of entry records.
Corrupted(raw) ==
  \/ raw.kind = "garbage"
  \/ /\ raw.kind = "json"
     /\ \/ raw.doc.t # "arr"
        \/ \E i \in 1..Len(raw.doc.a) : raw.doc.a[i].t # "obj"

\* C5: constructing the store over a corrupted stored text completes without
\* an uncaught failure and leaves the cart empty, with count() = 0.
C5_CorruptedYieldsEmpty ==
  (lastOp.op = "construct" /\ Corrupted(storage)) =>
    /\ ~uncaught
    /\ getItemsArray(items) = <<>>
    /\ getCount(items) = 0

\* What the operation recorded in op leaves of the entries before.
Effect(before, after, op) ==
  /\ op.op = "add" =>
       /\ QtyOf(after, op.id) = IF op.had THEN QtyOf(before, op.id) + 1 ELSE 1
       /\ MapHas(after, op.id)
       /\ Others(after, op.id) = Others(before, op.id)
  /\ op.op = "remove" =>
       /\ ~MapHas(after, op.id)
       /\ after = Others(before, op.id)
  /\ (op.op = "updateQty" /\ op.had) =>
       /\ MapHas(after, op.id) = (op.qty > 0)
       /\ QtyOf(after, op.id) = IF op.qty > 0 THEN op.qty ELSE 0
       /\ Others(after, op.id) = Others(before, op.id)
  /\ op.op = "clear" => after = <<>>

\* C6: when the storage write of an add, remove, updateQty or clear fails,
\* the mutation still takes full effect in memory, no error reaches the
\* caller, and the stored text is left as it was, so a reload rebuilds what
\* it would have rebuilt before the mutation.
C6_FailedWriteKeepsMemory ==
  [][lastOp'.write = "failed" =>
       /\ ~uncaught'
       /\ Effect(items, items', lastOp')
       /\ storage' = storage
       /\ Reloaded(storage') = Reloaded(storage)]_vars

\* A failed write after which memory is ahead of the stored text.
C6_Witness ==
  /\ lastOp.write = "failed"
  /\ lastOp.op \in MutOps
  /\ ~uncaught
  /\ Reloaded(storage) # items

\* C7: for an id in the store, updateQty(id, qty) with qty <= 0 removes the
\* entry, so items() has no entry with that id and count() drops by the
\* entry's quantity; with qty > 0 the entry stays, with quantity exactly qty.
C7_UpdateQtyRemovesOrSets ==
  [][(lastOp'.op = "updateQty" /\ lastOp'.had) =>
       IF lastOp'.qty <= 0
         THEN /\ \A i \in 1..Len(getItemsArray(items')) :
                   items'[i].id # lastOp'.id
              /\ getCount(items') = getCount(items) - QtyOf(items, lastOp'.id)
         ELSE /\ MapHas(items', lastOp'.id)
              /\ MapGet(items', lastOp'.id).cantidad = lastOp'.qty]_vars

\* An update to zero or below of an id that was in the store.
C7_Witness ==
  /\ lastOp.op = "updateQty" /\ lastOp.had
  /\ lastOp.qty <= 0
  /\ ~MapHas(items, lastOp.id)
  /\ Len(items) >= 1

\* A remove or an updateQty whose id the store did not hold.
AbsentIdOp(op) == op.op \in {"remove", "updateQty"} /\ ~op.had

\* C8, as stated: remove(id) and updateQty(id, qty) with an id that is not
\* in the store raise no error, leave the entries, their quantities, count()
\* and total() unchanged, and the stored text still decodes to the same
\* entries as before the call.
C8_AbsentIdLeavesBlob ==
  [][AbsentIdOp(lastOp') =>
       /\ ~uncaught'
       /\ items' = items
       /\ getCount(items') = getCount(items)
       /\ getTotal(items') = getTotal(items)
       /\ Reloaded(storage') = Reloaded(storage)]_vars

\* C8, amended: remove(id) and updateQty(id, qty) with an id that is not in
\* the store raise no error and leave the entries, their quantities, count()
\* and total() unchanged; updateQty writes nothing, remove persists the
\* unchanged entries again, so the stored text decodes to the same entries
\* as before whenever it was in step with the store before the call.
C8_AbsentIdNoOp ==
  [][AbsentIdOp(lastOp') =>
       /\ ~uncaught'
       /\ items' = items
       /\ getCount(items') = getCount(items)
       /\ getTotal(items') = getTotal(items)
       /\ lastOp'.op = "updateQty" => storage' = storage
       /\ (lastOp'.op = "remove" /\ lastOp'.write = "ok") =>
            Reloaded(storage') = items
       /\ (lastOp'.op = "remove" /\ lastOp'.write = "failed") =>
            storage' = storage
       /\ Reloaded(storage) = items =>
            Reloaded(storage') = Reloaded(storage)]_vars

\* An operation on an unknown id over a cart that holds another entry.
C8_Witness ==
  /\ AbsentIdOp(lastOp)
  /\ Len(items) >= 1
  /\ ~MapHas(items, lastOp.id)
  /\ ~uncaught

\* C9: after every mutation and after a reload, total() is the sum over the
\* current entries of price x quantity and count() the sum of the
\* quantities; adding p1 (Cupcake, label 'S/ 5.00') twice to an empty cart
\* gives count() = 2 and total() = 10.00; hydrating from a stored array with
\* the one record p2 of price 300 and quantity 2 gives total() = 600.00.
C9_TotalsAreSums ==
  /\ getTotal(items) =
       SumOver(DOMAIN items,
               [i \in DOMAIN items |-> items[i].precio * items[i].cantidad])
  /\ getCount(items) =
       SumOver(DOMAIN items, [i \in DOMAIN items |-> items[i].cantidad])
  /\ (/\ adds["p1"] = 2
      /\ first["p1"] = NuevoProducto("p1", Cupcake)
      /\ Len(items) = 1) =>
       /\ getCount(items) = 2
       /\ getTotal(items) = Amount(10, 0)
  /\ (/\ lastOp.op = "construct"
      /\ storage.kind = "json" /\ storage.doc.t = "arr"
      /\ Len(storage.doc.a) = 1 /\ storage.doc.a[1].t = "obj"
      /\ storage.doc.a[1].m.id = JStr("p2")
      /\ storage.doc.a[1].m.precio = JNum(Amount(300, 0))
      /\ storage.doc.a[1].m.cantidad = JNum(2)) =>
       getTotal(items) = Amount(600, 0)

\* Cupcake p1 added twice to a cart that holds nothing else.
C9_Witness ==
  /\ lastOp.op = "add" /\ lastOp.id = "p1"
  /\ adds["p1"] = 2
  /\ first["p1"] = NuevoProducto("p1", Cupcake)
  /\ Len(items) = 1
  /\ getTotal(items) = Amount(10, 0)

\* C10: the modal is created once and reused: after it has been closed
\* (close button or Escape), a click on the cart toggle button or the key
\* 'c' makes it visible in the page again, with the current cart lines and
\* the current total.
C10_ReopenShowsCart ==
  (lastOp.op = "open" /\ lastOp.had) =>
    /\ modal /\ attached
    /\ content = renderMiniCarrito([Now EXCEPT !.attached = TRUE]).content
    /\ totalEl = TotalText(items)

\* The modal's lines and running total show the entries and total().
ShowsCart ==
  /\ content.msg = (Len(items) = 0)
  /\ Len(content.rows) = Len(items)
  /\ \A i \in DOMAIN items :
       /\ content.rows[i].id = items[i].id
       /\ content.rows[i].nombre = items[i].nombre
       /\ content.rows[i].precio = formatPrice(items[i].precio)
       /\ content.rows[i].cantidad = ToString(items[i].cantidad)
  /\ totalEl = <<"T", "o", "t", "a", "l", ":", " ">>
                 \o formatPrice(getTotal(items))

\* C11: whenever a handler that mutates the cart (add button, line
\* increase, decrease and remove, clear, checkout) has run to completion,
\* the badge of the cart button shows count() and, if the modal is in the
\* page, its lines and total show items() and total().
C11_UiInStep ==
  lastOp.op \in MutOps =>
    /\ badge = ToString(getCount(items))
    /\ attached => ShowsCart

\* An add button was clicked, with a failed write, while the modal is open
\* and the cart holds two entries.
C11_Witness ==
  /\ lastOp.op = "add" /\ lastOp.write = "failed"
  /\ attached
  /\ Len(items) = 2
  /\ badge = ToString(getCount(items))

\* C12: a second call of descubrirProductosEnPagina over the same cards
\* (ids from data-id, from the element id or generated) adds no entry to
\* the registry, changes no registered product and adds no add button and
\* no click listener to any card.
C12_RescanIdempotent ==
  [][(lastOp.op = "scan" /\ lastOp'.op = "scan") =>
       /\ productosMap' = productosMap
       /\ \A k \in DOMAIN cards :
            /\ cards'[k].btns = cards[k].btns
            /\ cards'[k].clickListeners = cards[k].clickListeners]_vars

\* C13: the add button's handler gives the store a fresh copy of the
\* discovered product with quantity 1: no operation on the cart (add,
\* updateQty, remove, clear, checkout) changes a field of a product in the
\* registry, whose quantity stays 1, and an add of an id that is not in the
\* cart (never added, or removed before) inserts the entry with quantity 1
\* and the registry product's name, price and category.
C13_RegistryUntouched ==
  [][lastOp'.op \in MutOps =>
       /\ productosMap' = productosMap
       /\ \A i \in DOMAIN productosMap' : productosMap'[i].cantidad = 1
       /\ (lastOp'.op = "add" /\ ~lastOp'.had) =>
            /\ MapHas(items', lastOp'.id)
            /\ MapGet(items', lastOp'.id) =
                 MapGet(productosMap, lastOp'.id)]_vars

\* The product of the first card is added to a cart that holds another
\* entry but not this one: it is listed last with quantity 1.
C13_Witness ==
  /\ lastOp.op = "add" /\ lastOp.id = "p1" /\ ~lastOp.had
  /\ Len(items) = 2
  /\ items[2].id = "p1" /\ items[2].cantidad = 1
  /\ \A i \in DOMAIN productosMap : productosMap[i].cantidad = 1

\* The text JSON.stringify gives the empty array.
EmptyArrayText == JSONstringify(JArr(<<>>))

\* A click on the checkout button.
Checkout == \E writeOk \in BOOLEAN : CheckoutClick(writeOk)

\* C14: checkout with count() = 0 shows the empty-cart notification and
\* leaves the cart and the stored text unchanged; with count() > 0 it shows
\* the confirmation with the total, and afterwards the cart is empty,
\* count() = 0 and the stored text is the empty array.
C14_CheckoutGuarded ==
  [][Checkout =>
       IF getCount(items) = 0
         THEN /\ alerta'.kind = "vacio"
              /\ items' = items
              /\ storage' = storage
         ELSE /\ alerta'.kind = "gracias"
              /\ alerta'.total = formatPrice(getTotal(items))
              /\ items' = <<>>
              /\ getCount(items') = 0
              /\ storage' = EmptyArrayText]_vars

\* C14, amended: as above, but the stored text is the empty array when the
\* write of the clear succeeds, and is left as it was when that write fails.
C14_CheckoutGuardedWrite ==
  [][Checkout =>
       IF getCount(items) = 0
         THEN /\ alerta'.kind = "vacio"
              /\ items' = items
              /\ storage' = storage
              /\ ~uncaught'
         ELSE /\ alerta'.kind = "gracias"
              /\ alerta'.total = formatPrice(getTotal(items))
              /\ items' = <<>>
              /\ getCount(items') = 0
              /\ ~uncaught'
              /\ lastOp'.write = "ok" => storage' = EmptyArrayText
              /\ lastOp'.write = "failed" => storage' = storage]_vars

\* A checkout of a cart of two entries has shown the confirmation, and its
\* write failed: the cart is empty and the stored text still lists entries.
C14_Witness ==
  /\ alerta.kind = "gracias"
  /\ lastOp.op = "clear" /\ lastOp.write = "failed"
  /\ items = <<>>
  /\ storage.kind = "json" /\ storage.doc.t = "arr" /\ Len(storage.doc.a) = 2

\* C15: renders do not accumulate handlers: after any number of opens,
\* adds and line operations, one click on a line's increase button raises
\* the entry's quantity by exactly 1, one click on its decrease button
\* lowers it by exactly 1, removing the line when that leaves no quantity,
\* and one click on its remove button removes exactly that line; the other
\* lines are as before.  The history changes with every such click.
C15_OneHandlerPerClick ==
  [][/\ (lastOp' # lastOp /\ lastOp'.op = "updateQty" /\ lastOp'.had) =>
          LET id == lastOp'.id
              q  == QtyOf(items, id)
          IN  /\ MapHas(items, id)
              /\ lastOp'.qty \in {q - 1, q + 1}
              /\ Others(items', id) = Others(items, id)
              /\ IF lastOp'.qty >= 1
                   THEN /\ MapHas(items', id)
                        /\ QtyOf(items', id) = lastOp'.qty
                        /\ Len(items') = Len(items)
                   ELSE ~MapHas(items', id)
     /\ (lastOp' # lastOp /\ lastOp'.op = "remove") =>
          /\ ~MapHas(items', lastOp'.id)
          /\ items' = Others(items, lastOp'.id)]_vars

\* After the renders of an open, an add and two increases, the line of the
\* second of two entries stands at the largest quantity.
C15_Witness ==
  /\ lastOp.op = "updateQty" /\ lastOp.had
  /\ attached
  /\ Len(items) = 2 /\ lastOp.id = items[2].id
  /\ lastOp.qty = MaxQty
  /\ items[2].cantidad = MaxQty
  /\ content.rows[2].cantidad = ToString(MaxQty)
  /\ content.rows[2].handlers = 1

\* C16: at most one hide timer is pending, and it is the one the last
\* mostrarToast call started; a visible toast has its hide pending; each
\* call (one per click on an add button) replaces the text, shows the toast
\* and leaves the timer it starts as the only one pending; the toast is
\* hidden only when that timer fires (or the page is left); and a visible
\* toast is eventually hidden.
C16_ToastTimer ==
  /\ [](/\ Cardinality(timers) <= 1
        /\ timers \subseteq {toastTimer}
        /\ toast.visible => (toast.exists /\ timers # {}))
  /\ [][/\ (lastOp'.op = "add" /\ items' # items) =>
             /\ toast'.exists /\ toast'.visible
             /\ toast'.text = MapGet(productosMap, lastOp'.id).nombre
                                \o " agregado al carrito"
             /\ toastTimer' # 0
             /\ timers' = {toastTimer'}
        /\ (toast.visible /\ ~toast'.visible) =>
             \/ timers = {toastTimer} /\ timers' = {} /\ toast'.exists
             \/ ~toast'.exists /\ lastOp'.op = "construct"]_vars
  /\ toast.visible ~> ~toast.visible

\* A second toast replaced the first while its hide was pending, and one
\* timer is pending.
C16_Witness ==
  /\ lastOp.op = "add" /\ lastOp.had
  /\ adds[lastOp.id] >= 2
  /\ toast.visible
  /\ Cardinality(timers) = 1

\* The ids of the entries, in the order items() lists them.
IdsOf(its) == [i \in 1..Len(its) |-> its[i].id]

\* The ids of s without repetitions, each at its first place.
RECURSIVE FirstOccurrences(_)
FirstOccurrences(s) ==
  IF s = <<>> THEN <<>>
  ELSE LET front == FirstOccurrences(SubSeq(s, 1, Len(s) - 1))
       IN  IF \E i \in 1..Len(front) : front[i] = s[Len(s)] THEN front
           ELSE Append(front, s[Len(s)])

\* The stored text is a JSON array of records.
ArrayOfRecords(raw) ==
  /\ raw.kind = "json" /\ raw.doc.t = "arr"
  /\ \A i \in 1..Len(raw.doc.a) : raw.doc.a[i].t = "obj"

\* C17: items() lists the entries in insertion order: an add of a new id
\* puts it last, an add of a known id and an updateQty with a positive
\* quantity leave the order as it is, a remove takes the id out, so that an
\* id removed and added again goes last; a store hydrated from a stored
\* array of records lists the ids in the order of the array (an id the array
\* repeats is listed once, at its first place).
C17_InsertionOrder ==
  /\ []((lastOp.op = "construct" /\ ArrayOfRecords(storage)) =>
          IdsOf(items) =
            FirstOccurrences([i \in 1..Len(storage.doc.a) |->
                                storage.doc.a[i].m.id.s]))
  /\ [][/\ lastOp'.op = "add" =>
             IdsOf(items') = IF lastOp'.had THEN IdsOf(items)
                             ELSE Append(IdsOf(items), lastOp'.id)
        /\ (lastOp'.op = "updateQty" /\ lastOp'.qty > 0) =>
             IdsOf(items') = IdsOf(items)
        /\ lastOp'.op = "remove" =>
             IdsOf(items') = IdsOf(Others(items, lastOp'.id))]_vars

\* p1 is added, being absent, to a cart whose entry p2 was raised to the
\* largest quantity: p1 is listed after it.
C17_Witness ==
  /\ lastOp.op = "add" /\ ~lastOp.had /\ lastOp.id = "p1"
  /\ IdsOf(items) = <<"p2", "p1">>
  /\ items[2].cantidad = 1
  /\ items[1].cantidad = MaxQty

\* C18: after one scan every card whose markup held no add control has one
\* synthesized add button, whose handler adds the card's product id; so
\* have the cards whose id is that of a card scanned before them.
C18_EveryCardGetsButton ==
  (lastOp.op = "scan" /\ lastOp.qty = 1) =>
    \A k \in DOMAIN cards :
      ~cards[k].markupBtn =>
        /\ Len(cards[k].btns) = 1
        /\ cards[k].btns[1].id = cards[k].productId

\* The card has no markup id: the scan gives it a generated one.
Generated(card) == card.dataId = "" /\ card.elId = ""

\* The number in a generated id, the counter standing at c: one of the
\* values the counter took in the scans so far, or its least value 0.
IdNumber(id, c) ==
  CHOOSE n \in {0} \cup ((c - MaxCards * MaxScans)..c) :
    id = "p-" \o ToString(n)

\* C19: the generated ids are pairwise distinct and strictly increasing in
\* the order generarId hands them out, within a scan and from one scan to
\* the next; every key of the registry names exactly one product, every
\* card's id is a key of it, and two distinct cards without markup ids never
\* share an id.
C19_UniqueIds ==
  /\ [](lastOp.op = "scan" =>
          /\ \A i, j \in DOMAIN productosMap :
               getId(productosMap[i]) = getId(productosMap[j]) => i = j
          /\ \A k \in DOMAIN cards : MapHas(productosMap, cards[k].productId)
          /\ \A i, j \in DOMAIN cards :
               (Generated(cards[i]) /\ Generated(cards[j]) /\ i < j) =>
                 /\ cards[i].productId # cards[j].productId
                 /\ IdNumber(cards[i].productId, contador)
                      < IdNumber(cards[j].productId, contador))
  /\ [][(lastOp.op = "scan" /\ lastOp'.op = "scan") =>
          \A i, j \in DOMAIN cards :
            (Generated(cards[i]) /\ Generated(cards[j])) =>
              IdNumber(cards[i].productId, contador)
                < IdNumber(cards'[j].productId, contador')]_vars

\* Two scans of a page of three cards without markup ids: six ids.
C19_Witness ==
  /\ lastOp.op = "scan" /\ lastOp.qty = 2
  /\ Len(cards) = 3
  /\ \A k \in DOMAIN cards : Generated(cards[k])
  /\ Len(productosMap) = 6
  /\ cards[1].productId # cards[3].productId

\* C20: for every label formatPrice writes for a non-negative amount of
\* two decimals (the prefix, digits, a point and two digits), parsePrice
\* returns the amount and formatPrice of it is the label again; parsePrice
\* returns 0, and throws nothing, for null, the empty string and texts
\* without a digit.
C20_PriceRoundTrip ==
  /\ (ret.op # "none" /\ arg \in WellFormed) =>
       /\ ~ret.thrown
       /\ \E x \in LabelAmounts : arg.s = formatPrice(x) /\ ret.n = x
       /\ ret.op = "formatPrice" => ret.label = arg.s
  /\ (ret.op # "none" /\ arg \in DigitFree) =>
       /\ ~ret.thrown
       /\ ret.n = 0

\* The label 'S/ 1234.56' was parsed and written again.
C20_Witness ==
  /\ ret.op = "formatPrice"
  /\ arg = Str(<<"S", "/", " ", "1", "2", "3", "4", ".", "5", "6">>)
  /\ ret.n = Amount(1234, 56)
  /\ ret.label = arg.s

=============================================================================
